---- MODULE Spec2Model ----
(***************************************************************************)
(* The buffered exercise counter of the fitness tracker: the WebCam        *)
(* component of client/src/pages/Workouts.jsx (keypoint filter, seven      *)
(* detectors, local count buffer, rate-limited flush, animation-frame      *)
(* loop) and the shared WorkoutProvider store it publishes to.             *)
(*                                                                         *)
(* Numbers.  JavaScript numbers are modelled by integers in fixed point:   *)
(* a normalised keypoint coordinate kp.x is the integer kp.x * Den, so the *)
(* rescaled coordinate kp.x * videoWidth is in units of 1/Den pixel, and a *)
(* pixel constant c of the code is c * Den.  Scores are in hundredths.     *)
(* Times are milliseconds.                                                 *)
(***************************************************************************)
EXTENDS Integers, Sequences, FiniteSets, Bags, TLC

----------------------------------------------------------------------------
(* Units and program constants *)

Den == 240

ScoreMin == 20

FlushInterval == 800

DefaultWidth == 640

DefaultHeight == 480

Abs(v) == IF v < 0 THEN -v ELSE v

\* c pixels, in units of 1/Den pixel
Px(c) == c * Den

\* dim * pct/100 (videoHeight * 0.45 is Frac(videoHeight, 45)), in 1/Den pixel
Frac(dim, pct) == (dim * pct * Den) \div 100

\* Non-numbers of JavaScript arithmetic, outside the range of the coordinates
NaN == -999999

Infinity == 999998

NegInfinity == -Infinity

RECURSIVE SqrtSearch(_, _, _)
SqrtSearch(n, lo, hi) ==
  IF lo >= hi THEN lo
  ELSE LET mid == (lo + hi + 1) \div 2
       IN  IF mid * mid <= n THEN SqrtSearch(n, mid, hi)
           ELSE SqrtSearch(n, lo, mid - 1)

\* Math.hypot, rounded down to 1/Den pixel
hypot(dx, dy) ==
  IF dy = 0 THEN Abs(dx)
  ELSE IF dx = 0 THEN Abs(dy)
  ELSE SqrtSearch(dx * dx + dy * dy, 0, Abs(dx) + Abs(dy))

----------------------------------------------------------------------------
(* Keypoints *)

KEYPOINT_NAMES ==
  << "nose", "left_eye", "right_eye", "left_ear", "right_ear",
     "left_shoulder", "right_shoulder", "left_elbow", "right_elbow",
     "left_wrist", "right_wrist", "left_hip", "right_hip",
     "left_knee", "right_knee", "left_ankle", "right_ankle" >>

KEYPOINT_INDEX ==
  [ nose |-> 0, left_eye |-> 1, right_eye |-> 2, left_ear |-> 3, right_ear |-> 4,
    left_shoulder |-> 5, right_shoulder |-> 6, left_elbow |-> 7, right_elbow |-> 8,
    left_wrist |-> 9, right_wrist |-> 10, left_hip |-> 11, right_hip |-> 12,
    left_knee |-> 13, right_knee |-> 14, left_ankle |-> 15, right_ankle |-> 16 ]

Exercises ==
  { "handLifts", "eyeBlinks", "pushUps", "highJumps", "squats",
    "jumpingJacks", "lunges" }

defaultLocalCounts == [ k \in Exercises |-> 0 ]

\* An empty keypoint slot, and the null result of the filter
NoKeypoint == [ present |-> FALSE, x |-> 0, y |-> 0, score |-> 0, hasScore |-> FALSE ]

TimesOne(a, b) == a

\* kp.x * videoWidth
Times(a, b) ==
  IF a = NaN THEN NaN
  ELSE IF a = Infinity \/ a = NegInfinity
  THEN IF b = 0 THEN NaN ELSE IF b > 0 THEN a ELSE -a
  ELSE a * b

isNaN(v) == v = NaN

ScoreRejectedOff(kp) == FALSE

\* !kp || kp.score == null || kp.score < 0.2
ScoreRejected(kp) == ~kp.present \/ ~kp.hasScore \/ kp.score < ScoreMin

getKeypointByName(keypoints, name, videoWidth, videoHeight) ==
  LET idx == KEYPOINT_INDEX[name]
      kp  == IF idx + 1 \in DOMAIN keypoints THEN keypoints[idx + 1] ELSE NoKeypoint
      x   == Times(kp.x, videoWidth)
      y   == Times(kp.y, videoHeight)
  IN  IF ScoreRejected(kp) THEN NoKeypoint
      ELSE IF isNaN(x) \/ isNaN(y) THEN NoKeypoint
      ELSE [ kp EXCEPT !.x = x, !.y = y ]

----------------------------------------------------------------------------
(* Detector state (stateRef) and the local count buffer (localCountsRef) *)

Debounced == { "blink", "pushUp", "highJump", "squat", "jumpingJack", "lunge" }

initialStateRef ==
  [ handLifted       |-> FALSE,
    blinkDetected    |-> FALSE,
    pushUpState      |-> "up",
    highJumpState    |-> "down",
    squatState       |-> "up",
    jumpingJackState |-> "closed",
    lungeState       |-> "up",
    lastTimes        |-> [ d \in Debounced |-> 0 ] ]

bufferIncrementStuck(local, key) == [ local EXCEPT ![key] = 1 ]

\* localCountsRef.current[key] = (localCountsRef.current[key] ?? 0) + 1
bufferIncrement(local, key) == [ local EXCEPT ![key] = @ + 1 ]

ElapsedAlways(now, last, interval) == TRUE

\* now - lt.<detector> > <interval>
Elapsed(now, last, interval) == now - last > interval

\* The result of one detector on one frame: the new stateRef and whether it
\* called bufferIncrement
Quiet(s) == [ s |-> s, emit |-> FALSE ]

Emit(s) == [ s |-> s, emit |-> TRUE ]

handLiftLevel(s, leftWrist, leftShoulder) ==
  IF leftWrist.present /\ leftShoulder.present
  THEN IF leftWrist.y < leftShoulder.y + Px(10)
       THEN Emit([ s EXCEPT !.handLifted = TRUE ])
       ELSE Quiet([ s EXCEPT !.handLifted = FALSE ])
  ELSE Quiet(s)

handLift(s, leftWrist, leftShoulder) ==
  IF leftWrist.present /\ leftShoulder.present
  THEN IF leftWrist.y < leftShoulder.y + Px(10) /\ ~s.handLifted
       THEN Emit([ s EXCEPT !.handLifted = TRUE ])
       ELSE IF leftWrist.y >= leftShoulder.y + Px(10)
       THEN Quiet([ s EXCEPT !.handLifted = FALSE ])
       ELSE Quiet(s)
  ELSE Quiet(s)

blinkOneThreshold(s, leftEye, rightEye, nose, now) ==
  IF leftEye.present /\ rightEye.present /\ nose.present
  THEN LET leftEyeToNose  == hypot(leftEye.x - nose.x, leftEye.y - nose.y)
           rightEyeToNose == hypot(rightEye.x - nose.x, rightEye.y - nose.y)
           earSum == leftEyeToNose + rightEyeToNose
       IN  IF earSum < Px(160) /\ ~s.blinkDetected
              /\ Elapsed(now, s.lastTimes.blink, 250)
           THEN Emit([ s EXCEPT !.blinkDetected = TRUE, !.lastTimes.blink = now ])
           ELSE IF earSum >= Px(160)
           THEN Quiet([ s EXCEPT !.blinkDetected = FALSE ])
           ELSE Quiet(s)
  ELSE Quiet(s)

blink(s, leftEye, rightEye, nose, now) ==
  IF leftEye.present /\ rightEye.present /\ nose.present
  THEN LET leftEyeToNose  == hypot(leftEye.x - nose.x, leftEye.y - nose.y)
           rightEyeToNose == hypot(rightEye.x - nose.x, rightEye.y - nose.y)
           \* earAvg < 80 is earSum < 160, earAvg > 95 is earSum > 190
           earSum == leftEyeToNose + rightEyeToNose
       IN  IF earSum < Px(160) /\ ~s.blinkDetected
              /\ Elapsed(now, s.lastTimes.blink, 250)
           THEN Emit([ s EXCEPT !.blinkDetected = TRUE, !.lastTimes.blink = now ])
           ELSE IF earSum > Px(190)
           THEN Quiet([ s EXCEPT !.blinkDetected = FALSE ])
           ELSE Quiet(s)
  ELSE Quiet(s)

pushUp(s, rightShoulderKP, videoHeight, now) ==
  IF rightShoulderKP.present
  THEN LET shoulderY == rightShoulderKP.y
       IN  IF shoulderY > Frac(videoHeight, 45) /\ s.pushUpState = "up"
              /\ Elapsed(now, s.lastTimes.pushUp, 400)
           THEN Quiet([ s EXCEPT !.pushUpState = "down" ])
           ELSE IF shoulderY < Frac(videoHeight, 25) /\ s.pushUpState = "down"
           THEN Emit([ s EXCEPT !.pushUpState = "up", !.lastTimes.pushUp = now ])
           ELSE Quiet(s)
  ELSE Quiet(s)

highJumpHeld(s, leftAnkle, rightAnkle, videoHeight, now) ==
  IF leftAnkle.present /\ rightAnkle.present
  THEN LET ankleSumY == leftAnkle.y + rightAnkle.y
       IN  IF ankleSumY < 2 * Frac(videoHeight, 24)
              /\ Elapsed(now, s.lastTimes.highJump, 500)
           THEN Emit([ s EXCEPT !.highJumpState = "up", !.lastTimes.highJump = now ])
           ELSE IF ankleSumY > 2 * Frac(videoHeight, 66)
           THEN Quiet([ s EXCEPT !.highJumpState = "down" ])
           ELSE Quiet(s)
  ELSE Quiet(s)

highJump(s, leftAnkle, rightAnkle, videoHeight, now) ==
  IF leftAnkle.present /\ rightAnkle.present
  THEN \* ankleAvgY < h * 0.24 is ankleSumY < 2 * h * 0.24
       LET ankleSumY == leftAnkle.y + rightAnkle.y
       IN  IF ankleSumY < 2 * Frac(videoHeight, 24) /\ s.highJumpState = "down"
              /\ Elapsed(now, s.lastTimes.highJump, 500)
           THEN Emit([ s EXCEPT !.highJumpState = "up", !.lastTimes.highJump = now ])
           ELSE IF ankleSumY > 2 * Frac(videoHeight, 66)
           THEN Quiet([ s EXCEPT !.highJumpState = "down" ])
           ELSE Quiet(s)
  ELSE Quiet(s)

squatCoupled(s, leftKnee, leftHip, now) ==
  IF leftKnee.present /\ leftHip.present
  THEN IF leftKnee.y > leftHip.y + Px(40) /\ s.squatState = "up"
          /\ Elapsed(now, s.lastTimes.squat, 500)
       THEN Quiet([ s EXCEPT !.squatState = "down" ])
       ELSE IF leftKnee.y < leftHip.y + Px(10) /\ s.squatState = "down"
               /\ s.lungeState = "up"
       THEN Emit([ s EXCEPT !.squatState = "up", !.lastTimes.squat = now ])
       ELSE Quiet(s)
  ELSE Quiet(s)

squat(s, leftKnee, leftHip, now) ==
  IF leftKnee.present /\ leftHip.present
  THEN IF leftKnee.y > leftHip.y + Px(40) /\ s.squatState = "up"
          /\ Elapsed(now, s.lastTimes.squat, 500)
       THEN Quiet([ s EXCEPT !.squatState = "down" ])
       ELSE IF leftKnee.y < leftHip.y + Px(10) /\ s.squatState = "down"
       THEN Emit([ s EXCEPT !.squatState = "up", !.lastTimes.squat = now ])
       ELSE Quiet(s)
  ELSE Quiet(s)

jumpingJack(s, leftWrist, rightWrist, leftAnkle, rightAnkle, videoWidth, now) ==
  IF leftWrist.present /\ rightWrist.present /\ leftAnkle.present /\ rightAnkle.present
  THEN LET armSpread == Abs(leftWrist.x - rightWrist.x)
           legSpread == Abs(leftAnkle.x - rightAnkle.x)
       IN  IF armSpread > Frac(videoWidth, 34) /\ legSpread > Frac(videoWidth, 18)
              /\ s.jumpingJackState = "closed"
              /\ Elapsed(now, s.lastTimes.jumpingJack, 350)
           THEN Emit([ s EXCEPT !.jumpingJackState = "open",
                                !.lastTimes.jumpingJack = now ])
           ELSE IF armSpread < Frac(videoWidth, 12) /\ legSpread < Frac(videoWidth, 6)
           THEN Quiet([ s EXCEPT !.jumpingJackState = "closed" ])
           ELSE Quiet(s)
  ELSE Quiet(s)

lunge(s, rightKnee, rightHip, now) ==
  IF rightKnee.present /\ rightHip.present
  THEN LET kneeHipDistance == Abs(rightKnee.y - rightHip.y)
       IN  IF kneeHipDistance > Px(80) /\ rightKnee.x > rightHip.x + Px(10)
              /\ s.lungeState = "up" /\ Elapsed(now, s.lastTimes.lunge, 500)
           THEN Quiet([ s EXCEPT !.lungeState = "down" ])
           ELSE IF kneeHipDistance < Px(40) /\ s.lungeState = "down"
           THEN Emit([ s EXCEPT !.lungeState = "up", !.lastTimes.lunge = now ])
           ELSE Quiet(s)
  ELSE Quiet(s)

\* The keypoint lookups at the head of the processing of one frame
lookups(keypoints, videoWidth, videoHeight) ==
  [ leftWrist       |-> getKeypointByName(keypoints, "left_wrist", videoWidth, videoHeight),
    rightWrist      |-> getKeypointByName(keypoints, "right_wrist", videoWidth, videoHeight),
    leftShoulder    |-> getKeypointByName(keypoints, "left_shoulder", videoWidth, videoHeight),
    rightShoulder   |-> getKeypointByName(keypoints, "right_shoulder", videoWidth, videoHeight),
    leftEye         |-> getKeypointByName(keypoints, "left_eye", videoWidth, videoHeight),
    rightEye        |-> getKeypointByName(keypoints, "right_eye", videoWidth, videoHeight),
    nose            |-> getKeypointByName(keypoints, "nose", videoWidth, videoHeight),
    rightShoulderKP |-> getKeypointByName(keypoints, "right_shoulder", videoWidth, videoHeight),
    leftAnkle       |-> getKeypointByName(keypoints, "left_ankle", videoWidth, videoHeight),
    rightAnkle      |-> getKeypointByName(keypoints, "right_ankle", videoWidth, videoHeight),
    leftKnee        |-> getKeypointByName(keypoints, "left_knee", videoWidth, videoHeight),
    leftHip         |-> getKeypointByName(keypoints, "left_hip", videoWidth, videoHeight),
    rightKnee       |-> getKeypointByName(keypoints, "right_knee", videoWidth, videoHeight),
    rightHip        |-> getKeypointByName(keypoints, "right_hip", videoWidth, videoHeight) ]

\* The processing of one frame after some of the detectors: stateRef (s),
\* localCountsRef (local) and the keys bufferIncrement was called with
\* (emits).  after(a, r, key) is a followed by the detector of key, which
\* gave the result r.
afterFirstKey(a, r, key) ==
  IF r.emit
  THEN [ s |-> r.s, local |-> bufferIncrement(a.local, "handLifts"),
         emits |-> a.emits \cup { key } ]
  ELSE [ s |-> r.s, local |-> a.local, emits |-> a.emits ]

after(a, r, key) ==
  IF r.emit
  THEN [ s |-> r.s, local |-> bufferIncrement(a.local, key), emits |-> a.emits \cup { key } ]
  ELSE [ s |-> r.s, local |-> a.local, emits |-> a.emits ]

afterHandLift(a, k) ==
  after(a, handLift(a.s, k.leftWrist, k.leftShoulder), "handLifts")

afterBlink(a, k, now) ==
  after(a, blink(a.s, k.leftEye, k.rightEye, k.nose, now), "eyeBlinks")

afterPushUp(a, k, videoHeight, now) ==
  after(a, pushUp(a.s, k.rightShoulderKP, videoHeight, now), "pushUps")

afterHighJump(a, k, videoHeight, now) ==
  after(a, highJump(a.s, k.leftAnkle, k.rightAnkle, videoHeight, now), "highJumps")

afterSquat(a, k, now) ==
  after(a, squat(a.s, k.leftKnee, k.leftHip, now), "squats")

afterJumpingJack(a, k, videoWidth, now) ==
  after(a, jumpingJack(a.s, k.leftWrist, k.rightWrist, k.leftAnkle, k.rightAnkle,
                       videoWidth, now), "jumpingJacks")

afterLunge(a, k, now) ==
  after(a, lunge(a.s, k.rightKnee, k.rightHip, now), "lunges")

\* The seven detectors in the order of the code, each on the stateRef and the
\* buffer the one before it left
detectors(a, k, videoWidth, videoHeight, now) ==
  afterLunge(
    afterJumpingJack(
      afterSquat(
        afterHighJump(
          afterPushUp(
            afterBlink(
              afterHandLift(a, k),
              k, now),
            k, videoHeight, now),
          k, videoHeight, now),
        k, now),
      k, videoWidth, now),
    k, now)

\* The body of detectAndProcess from the keypoint lookups to the last detector
detectAll(s0, local0, keypoints, videoWidth, videoHeight, now) ==
  detectors([ s |-> s0, local |-> local0, emits |-> {} ],
            lookups(keypoints, videoWidth, videoHeight),
            videoWidth, videoHeight, now)

----------------------------------------------------------------------------
(* The frames the pose estimator delivers.  Poses are written in pixels of   *)
(* the 640 x 480 reference frame and normalised, as the estimator's output   *)
(* is.  Every pose is the neutral pose with the keypoints of one gesture     *)
(* moved: the neutral pose itself satisfies no condition that moves a        *)
(* detector away from rest.                                                  *)

NeutralPx ==
  [ nose           |-> << 320, 100 >>,
    left_eye       |-> << 416, 100 >>,
    right_eye      |-> << 224, 100 >>,
    left_ear       |-> << 440, 100 >>,
    right_ear      |-> << 200, 100 >>,
    left_shoulder  |-> << 360, 150 >>,
    right_shoulder |-> << 280, 150 >>,
    left_elbow     |-> << 368, 180 >>,
    right_elbow    |-> << 272, 180 >>,
    left_wrist     |-> << 336, 200 >>,
    right_wrist    |-> << 304, 200 >>,
    left_hip       |-> << 336, 250 >>,
    right_hip      |-> << 304, 250 >>,
    left_knee      |-> << 336, 270 >>,
    right_knee     |-> << 304, 310 >>,
    left_ankle     |-> << 328, 400 >>,
    right_ankle    |-> << 312, 400 >> ]

\* The keypoints each gesture moves, by exercise and phase.  "A" is the pose of
\* the table's enter-active condition, "R" the pose of its return condition,
\* "H" a pose inside the hysteresis band (or, for the hand lift, exactly on
\* its threshold wrist.y = shoulder.y + 10).
GesturePx ==
  [ handLifts |->
      [ A |-> [ left_wrist |-> << 336, 100 >> ],
        R |-> [ left_wrist |-> << 336, 200 >> ],
        H |-> [ left_wrist |-> << 336, 160 >> ] ],
    eyeBlinks |->
      [ A |-> [ left_eye |-> << 392, 100 >>, right_eye |-> << 248, 100 >> ],
        R |-> [ left_eye |-> << 416, 100 >>, right_eye |-> << 224, 100 >> ],
        H |-> [ left_eye |-> << 408, 100 >>, right_eye |-> << 232, 100 >> ] ],
    pushUps |->
      [ A |-> [ right_shoulder |-> << 280, 240 >> ],
        R |-> [ right_shoulder |-> << 280, 100 >> ],
        H |-> [ right_shoulder |-> << 280, 150 >> ] ],
    highJumps |->
      [ A |-> [ left_ankle |-> << 328, 50 >>, right_ankle |-> << 312, 50 >> ],
        R |-> [ left_ankle |-> << 328, 400 >>, right_ankle |-> << 312, 400 >> ],
        H |-> [ left_ankle |-> << 328, 200 >>, right_ankle |-> << 312, 200 >> ] ],
    squats |->
      [ A |-> [ left_knee |-> << 336, 310 >> ],
        R |-> [ left_knee |-> << 336, 250 >> ],
        H |-> [ left_knee |-> << 336, 270 >> ] ],
    jumpingJacks |->
      [ A |-> [ left_wrist |-> << 440, 200 >>, right_wrist |-> << 200, 200 >>,
                left_ankle |-> << 400, 400 >>, right_ankle |-> << 240, 400 >> ],
        R |-> [ left_wrist |-> << 336, 200 >>, right_wrist |-> << 304, 200 >>,
                left_ankle |-> << 328, 400 >>, right_ankle |-> << 312, 400 >> ],
        H |-> [ left_wrist |-> << 400, 200 >>, right_wrist |-> << 240, 200 >>,
                left_ankle |-> << 360, 400 >>, right_ankle |-> << 280, 400 >> ] ],
    lunges |->
      [ A |-> [ right_knee |-> << 328, 346 >> ],
        R |-> [ right_knee |-> << 304, 270 >> ],
        H |-> [ right_knee |-> << 304, 310 >> ] ] ]

Phases == { "A", "R", "H" }

\* The normalised keypoint of a pixel position of the reference frame
Normalised(px, score) ==
  [ present |-> TRUE,
    x |-> (px[1] * Den) \div DefaultWidth,
    y |-> (px[2] * Den) \div DefaultHeight,
    score |-> score, hasScore |-> TRUE ]

\* The pixel position of keypoint name in the pose in which the gestures of
\* the pairs in moves (<<exercise, phase>>) are made at once
PosePx(moves, name) ==
  IF \E m \in moves : name \in DOMAIN GesturePx[m[1]][m[2]]
  THEN LET m == CHOOSE m \in moves : name \in DOMAIN GesturePx[m[1]][m[2]]
       IN  GesturePx[m[1]][m[2]][name]
  ELSE NeutralPx[name]

\* (f @@ << >> is f, tabulated once instead of computed at each use)
Keypoints(moves, score) ==
  [ i \in 1..Len(KEYPOINT_NAMES) |->
      Normalised(PosePx(moves, KEYPOINT_NAMES[i]), score) ] @@ << >>

GoodScore == 90

LowScore == ScoreMin - 1

\* A frame: what estimatePoses resolved to, with the size of the video.
\* kind "pose" is a full skeleton; the kinds without a valid keypoint are
\* "empty" (17 empty slots), "low" (every score below 0.2) and "unscored"
\* (every score missing), the last two in the active pose of the session.
Frame(kind, moves) ==
  [ kind |-> kind, moves |-> moves,
    videoWidth |-> DefaultWidth, videoHeight |-> DefaultHeight,
    keypoints |->
      CASE kind = "pose"     -> Keypoints(moves, GoodScore)
        [] kind = "low"      -> Keypoints(moves, LowScore)
        [] kind = "unscored" ->
             [ i \in 1..Len(KEYPOINT_NAMES) |->
                 [ Keypoints(moves, 0)[i] EXCEPT !.hasScore = FALSE ] ] @@ << >>
        [] OTHER             -> [ i \in 1..Len(KEYPOINT_NAMES) |-> NoKeypoint ] @@ << >> ]

\* The frames without a valid keypoint of a session
InvalidFrames(ses) ==
  LET active == { << e, "A" >> : e \in ses }
  IN  { << "empty", {} >>, << "low", active >>, << "unscored", active >> }

\* The frames of a session in which the person does the exercises of session,
\* each named by its kind and gestures: the neutral pose, each gesture alone,
\* the active poses of two exercises together, and the frames without a valid
\* keypoint
SessionFrames(ses) ==
  { << "pose", {} >> }
    \cup { << "pose", { << e, p >> } >> : e \in ses, p \in Phases }
    \cup { << "pose", { << e1, "A" >>, << e2, "A" >> } >> : e1 \in ses, e2 \in ses }
    \cup InvalidFrames(ses)

Sessions ==
  { { e } : e \in Exercises } \cup { { "handLifts", "highJumps" } }

FrameTable ==
  [ id \in UNION { SessionFrames(ses) : ses \in Sessions } |->
      Frame(id[1], id[2]) ] @@ << >>

----------------------------------------------------------------------------
(* The shared store (WorkoutProvider) and the flush *)

\* The keys of localCountsRef.current in the order Object.keys yields them
ExerciseKeys ==
  << "handLifts", "eyeBlinks", "pushUps", "highJumps", "squats",
     "jumpingJacks", "lunges" >>

updaterFromDefault(prev, key, value) == [ defaultLocalCounts EXCEPT ![key] = value ]

\* setCounts((prev) => ({ ...prev, [key]: value })): the updater, applied
updater(prev, key, value) == [ prev EXCEPT ![key] = value ]

RECURSIVE applyUpdates(_, _)
\* React applies the queued updaters in the order they were enqueued
applyUpdates(prev, updates) ==
  IF updates = << >> THEN prev
  ELSE applyUpdates(updater(prev, Head(updates)[1], Head(updates)[2]), Tail(updates))

FlushDueAlways(now, last) == TRUE

\* not (now - lastContextFlush.current < 800)
FlushDue(now, last) == ~(now - last < FlushInterval)

flushUpdatesNone(local, closureCounts) == << >>

\* The updateCount calls of one accepted flush: one for each key whose local
\* value differs from the value of counts the closure captured
flushUpdates(local, closureCounts) ==
  LET all == [ i \in 1..Len(ExerciseKeys) |-> << ExerciseKeys[i], local[ExerciseKeys[i]] >> ]
      differs(u) == u[2] # closureCounts[u[1]]
  IN  SelectSeq(all, differs)

\* flushCountsToContext: the new lastContextFlush and the updaters enqueued
flushCountsToContext(now, last, local, closureCounts) ==
  IF ~FlushDue(now, last)
  THEN [ lastContextFlush |-> last, updates |-> << >>, accepted |-> FALSE ]
  ELSE [ lastContextFlush |-> now, updates |-> flushUpdates(local, closureCounts),
         accepted |-> TRUE ]

----------------------------------------------------------------------------
(* Bounds of the model *)

\* Date.now() when the application starts
Epoch == 10000

\* The clock advances in steps of FineStep or CoarseStep milliseconds, at most
\* MaxFineTicks or MaxCoarseTicks steps of the respective size past Epoch
FineStep == 100

CoarseStep == 400

MaxFineTicks == 7

MaxCoarseTicks == 6

\* The steps of CoarseStep milliseconds a component that is never unmounted
\* is watched for
MaxLoopTicks == 3

\* The events one instance of the component records
MaxEvents == 2

\* The times the component is mounted
MaxMounts == 2

\* The callbacks of detectAndProcess scheduled or running at one time
MaxCalls == 2

----------------------------------------------------------------------------
(* State *)

VARIABLES
  now,               \* Date.now()
  session,           \* the exercises the person does in front of the camera
  counts,            \* WorkoutProvider: the state counts (the published store)
  queue,             \* WorkoutProvider: updaters passed to setCounts, not yet applied
  mounted,           \* whether the WebCam component is mounted
  mounts,            \* how many times it has been mounted
  modelLoaded,       \* WebCam: the state modelLoaded
  stateRef,          \* WebCam: stateRef.current
  localCounts,       \* WebCam: localCountsRef.current
  lastContextFlush,  \* WebCam: lastContextFlush.current
  calls,             \* the callbacks of detectAndProcess scheduled or awaiting estimatePoses
  hist,              \* history of the run, read by the properties only
  probe,             \* an input and the result of one function of the code on it
  ivl,               \* the interval-driven WebCam component (pages/WebCam.jsx)
  srv                \* the server process: isConnected and the handler invocations

vars ==
  << now, session, counts, queue, mounted, mounts, modelLoaded,
     stateRef, localCounts, lastContextFlush, calls, hist, probe, ivl, srv >>

\* A callback of detectAndProcess: phase "scheduled" (requestAnimationFrame
\* called, not yet run) or "awaiting" (suspended at await estimatePoses);
\* counts is the value of counts its closure captured; raf says that
\* rafRef.current holds its handle; inst is "cur" for the mounted (or last
\* unmounted) instance of the component and "old" for an earlier one.
Call(phase, closureCounts, raf, inst) ==
  [ phase |-> phase, counts |-> closureCounts, raf |-> raf, inst |-> inst ]

Total(c) ==
  c.handLifts + c.eyeBlinks + c.pushUps + c.highJumps + c.squats
    + c.jumpingJacks + c.lunges

NoCycle == [ ex |-> "none", stage |-> "idle", local |-> defaultLocalCounts,
             s |-> initialStateRef ]

initialHist ==
  [ emitted   |-> defaultLocalCounts,
    lastEmit  |-> [ k \in Exercises |-> 0 ],
    valid     |-> FALSE,
    cycle     |-> NoCycle,
    handUp    |-> FALSE,
    edges     |-> 0,
    lastWrite |-> 0,
    lastAccept |-> 0,
    flush     |-> "none",
    skipped   |-> FALSE,
    opposite  |-> {} ]

\* No function is probed
NoProbe == [ kind |-> "none" ]

\* The requests the server process receives
MaxRequests == 3

\* The interval-driven component when it is mounted: no detector yet, its
\* refs as created, no estimatePoses call in flight.  counts is the counts of
\* the render whose detectPose the interval calls; events counts the
\* updateCount calls per exercise.
initialInterval ==
  [ detector |-> FALSE,
    counts   |-> defaultLocalCounts,
    s        |-> initialStateRef,
    inflight |-> 0,
    events   |-> defaultLocalCounts ]

\* The server process when it starts: isConnected = false and no invocation
\* of the handler yet.  connects counts the calls of mongoose.connect.
initialServer ==
  [ isConnected |-> FALSE,
    pc          |-> [ r \in 1..MaxRequests |-> "none" ],
    connects    |-> 0 ]

\* The history after a step of a callback that processed no frame
skipped(h) == [ h EXCEPT !.skipped = @ \/ localCounts # defaultLocalCounts ]

InitWith(sessions) ==
  /\ now = Epoch
  /\ session \in sessions
  /\ counts = defaultLocalCounts
  /\ queue = << >>
  /\ mounted = FALSE
  /\ mounts = 0
  /\ modelLoaded = FALSE
  /\ stateRef = initialStateRef
  /\ localCounts = defaultLocalCounts
  /\ lastContextFlush = 0
  /\ calls = EmptyBag
  /\ hist = initialHist
  /\ probe = NoProbe
  /\ ivl = initialInterval
  /\ srv = initialServer

----------------------------------------------------------------------------
(* Bags of callbacks *)

One(c) == SetToBag({ c })

Scheduled(B) == { c \in BagToSet(B) : c.phase = "scheduled" }

Awaiting(B) == { c \in BagToSet(B) : c.phase = "awaiting" }

\* The bag of the g(c) for the c in bag B
MapBag(B, g(_)) ==
  [ d \in { g(c) : c \in BagToSet(B) } |->
      BagCardinality([ c \in { e \in BagToSet(B) : g(e) = d } |-> CopiesIn(c, B) ]) ]

\* rafRef.current of the current instance is about to be overwritten or
\* cleared: no callback of the instance is the one it names any more
forgetRaf(B) ==
  LET plain(c) == IF c.inst = "cur" THEN [ c EXCEPT !.raf = FALSE ] ELSE c
  IN  MapBag(B, plain)

\* rafRef.current = requestAnimationFrame(detectAndProcess), from a callback
\* or an effect whose closure captured closureCounts.  A callback scheduled
\* for a component that is not mounted any more finds no video whenever it
\* runs and never reads its counts.
schedule(B, closureCounts, inst) ==
  IF inst = "cur" /\ mounted
  THEN forgetRaf(B) (+) One(Call("scheduled", closureCounts, TRUE, "cur"))
  ELSE B (+) One(Call("scheduled", defaultLocalCounts, FALSE, "old"))

\* if (rafRef.current) cancelAnimationFrame(rafRef.current); rafRef.current = null
\* cancels the callback rafRef names if it has not run yet
cancelRaf(B) ==
  LET named == { c \in Scheduled(B) : c.inst = "cur" /\ c.raf }
  IN  forgetRaf(IF named = {} THEN B ELSE B (-) One(CHOOSE c \in named : TRUE))

\* The component is unmounted: its scheduled callbacks will find no video,
\* the estimations in flight go on
retire(B) ==
  LET old(c) == IF c.phase = "scheduled"
                THEN Call("scheduled", defaultLocalCounts, FALSE, "old")
                ELSE [ c EXCEPT !.raf = FALSE ]
  IN  MapBag(B, old)

----------------------------------------------------------------------------
(* What the properties observe of a run.  These definitions read the raw     *)
(* frame and the documented table, not the operators that model the code.    *)

\* The documented debounce interval of each exercise's detector (0: none)
Interval(e) ==
  CASE e = "eyeBlinks"    -> 250
    [] e = "pushUps"      -> 400
    [] e = "highJumps"    -> 500
    [] e = "squats"       -> 500
    [] e = "jumpingJacks" -> 350
    [] e = "lunges"       -> 500
    [] OTHER              -> 0

\* The state label and last-event time of one exercise's detector
Detector(s, e) ==
  CASE e = "handLifts"    -> << s.handLifted, 0 >>
    [] e = "eyeBlinks"    -> << s.blinkDetected, s.lastTimes.blink >>
    [] e = "pushUps"      -> << s.pushUpState, s.lastTimes.pushUp >>
    [] e = "highJumps"    -> << s.highJumpState, s.lastTimes.highJump >>
    [] e = "squats"       -> << s.squatState, s.lastTimes.squat >>
    [] e = "jumpingJacks" -> << s.jumpingJackState, s.lastTimes.jumpingJack >>
    [] OTHER              -> << s.lungeState, s.lastTimes.lunge >>

AtRest(s, e) == Detector(s, e)[1] = Detector(initialStateRef, e)[1]

AllAtRest(s) == \A e \in Exercises : AtRest(s, e)

\* A keypoint slot that is filled, with a confidence of at least 0.2
ValidSlot(kp) == kp.present /\ kp.hasScore /\ kp.score * 10 >= 2 * 100

HasValidKeypoint(f) == \E i \in DOMAIN f.keypoints : ValidSlot(f.keypoints[i])

\* Left wrist (slot 10) and left shoulder (slot 6) are both valid
HandSeen(f) == ValidSlot(f.keypoints[10]) /\ ValidSlot(f.keypoints[6])

\* wrist.y < shoulder.y + 10, in pixels of the frame
HandAbove(f) ==
  f.keypoints[10].y * f.videoHeight < f.keypoints[6].y * f.videoHeight + 10 * Den

\* The position of keypoint name in frame f, in 1/Den pixel
At(f, name) ==
  [ x |-> f.keypoints[KEYPOINT_INDEX[name] + 1].x * f.videoWidth,
    y |-> f.keypoints[KEYPOINT_INDEX[name] + 1].y * f.videoHeight ]

Seen(f, names) == \A n \in names : ValidSlot(f.keypoints[KEYPOINT_INDEX[n] + 1])

\* The documented condition opposite to the emit condition of each exercise,
\* observed on frame f with valid keypoints
Opposite(e, f) ==
  CASE e = "handLifts" ->
         /\ Seen(f, { "left_wrist", "left_shoulder" })
         /\ At(f, "left_wrist").y >= At(f, "left_shoulder").y + 10 * Den
    [] e = "eyeBlinks" ->
         /\ Seen(f, { "left_eye", "right_eye", "nose" })
         /\ hypot(At(f, "left_eye").x - At(f, "nose").x,
                  At(f, "left_eye").y - At(f, "nose").y)
              + hypot(At(f, "right_eye").x - At(f, "nose").x,
                      At(f, "right_eye").y - At(f, "nose").y) > 2 * 95 * Den
    [] e = "pushUps" ->
         /\ Seen(f, { "right_shoulder" })
         /\ At(f, "right_shoulder").y * 100 > 45 * f.videoHeight * Den
    [] e = "highJumps" ->
         /\ Seen(f, { "left_ankle", "right_ankle" })
         /\ (At(f, "left_ankle").y + At(f, "right_ankle").y) * 100
              > 2 * 66 * f.videoHeight * Den
    [] e = "squats" ->
         /\ Seen(f, { "left_knee", "left_hip" })
         /\ At(f, "left_knee").y > At(f, "left_hip").y + 40 * Den
    [] e = "jumpingJacks" ->
         /\ Seen(f, { "left_wrist", "right_wrist", "left_ankle", "right_ankle" })
         /\ Abs(At(f, "left_wrist").x - At(f, "right_wrist").x) * 100
              < 12 * f.videoWidth * Den
         /\ Abs(At(f, "left_ankle").x - At(f, "right_ankle").x) * 100
              < 6 * f.videoWidth * Den
    [] OTHER ->
         /\ Seen(f, { "right_knee", "right_hip" })
         /\ Abs(At(f, "right_knee").y - At(f, "right_hip").y) > 80 * Den
         /\ At(f, "right_knee").x > At(f, "right_hip").x + 10 * Den

Opposites(f) == { e \in Exercises : Opposite(e, f) }

\* The progress of the latest single-exercise cycle: it starts on a frame that
\* shows the active pose of one exercise alone while every detector is at
\* rest and more than the exercise's debounce interval has passed since its
\* last event, and it is done on the next frame if that shows the exercise's
\* return pose alone.
nextCycle(cycle, f, s, local, lastEmit, t) ==
  IF /\ f.kind = "pose"
     /\ \E e \in Exercises : f.moves = { << e, "A" >> }
     /\ AllAtRest(s)
  THEN LET e == CHOOSE e \in Exercises : f.moves = { << e, "A" >> }
       IN  IF Interval(e) = 0 \/ t - lastEmit[e] > Interval(e)
           THEN [ ex |-> e, stage |-> "active", local |-> local, s |-> s ]
           ELSE NoCycle
  ELSE IF cycle.stage = "active" /\ f.kind = "pose" /\ f.moves = { << cycle.ex, "R" >> }
  THEN [ cycle EXCEPT !.stage = "done" ]
  ELSE NoCycle

----------------------------------------------------------------------------
(* Actions *)

\* Time passes.  React applies queued updates within milliseconds: before
\* the clock moves by a step and before a navigation is handled.
Tick(step, maxTicks) ==
  /\ now + step <= Epoch + step * maxTicks
  /\ queue = << >>
  /\ now' = now + step
  /\ UNCHANGED << session, counts, queue, mounted, mounts, modelLoaded,
                  stateRef, localCounts, lastContextFlush,
                  calls, hist, probe, ivl, srv >>

\* The route /webcam is entered: WebCam is mounted inside the WorkoutProvider,
\* its refs are created and it renders with the store's current counts.  A
\* new mount waits for the estimations of the previous instance to settle.
Mount ==
  /\ ~mounted
  /\ queue = << >>
  /\ mounts < MaxMounts
  /\ Awaiting(calls) = {}
  /\ mounted' = TRUE
  /\ mounts' = mounts + 1
  /\ modelLoaded' = FALSE
  /\ stateRef' = initialStateRef
  /\ localCounts' = defaultLocalCounts
  /\ lastContextFlush' = now
  /\ hist' = [ initialHist EXCEPT !.valid = hist.valid, !.lastWrite = hist.lastWrite,
                                  !.lastAccept = hist.lastAccept ]
  /\ UNCHANGED << now, session, counts, queue, calls, probe, ivl, srv >>

\* The detector is created: setModelLoaded(true), the component renders again
\* and the start/stop effect schedules the first callback
ModelLoaded ==
  /\ mounted
  /\ ~modelLoaded
  /\ modelLoaded' = TRUE
  /\ calls' = schedule(calls, counts, "cur")
  /\ UNCHANGED << now, session, counts, queue, mounted, mounts, stateRef,
                  localCounts, lastContextFlush, hist, probe, ivl, srv >>

\* A scheduled callback runs and finds no video to read (the video is not
\* ready, or the component of the callback is unmounted): it schedules
\* itself again and returns
NotReady(c) ==
  /\ c \in Scheduled(calls)
  /\ calls' = schedule(calls (-) One(c), c.counts, c.inst)
  /\ hist' = skipped(hist)
  /\ UNCHANGED << now, session, counts, queue, mounted, mounts, modelLoaded,
                  stateRef, localCounts, lastContextFlush, probe, ivl, srv >>

\* A scheduled callback runs, calls estimatePoses and is suspended at the await
Begin(c) ==
  /\ c \in Scheduled(calls)
  /\ c.inst = "cur"
  /\ mounted
  /\ calls' = (calls (-) One(c)) (+) One([ c EXCEPT !.phase = "awaiting", !.raf = FALSE ])
  /\ UNCHANGED << now, session, counts, queue, mounted, mounts, modelLoaded,
                  stateRef, localCounts, lastContextFlush, hist, probe, ivl, srv >>

ThrowStamped(c) ==
  /\ c \in Awaiting(calls)
  /\ calls' = schedule(calls (-) One(c), c.counts, c.inst)
  /\ lastContextFlush' = now
  /\ hist' = skipped(hist)
  /\ UNCHANGED << now, session, counts, queue, mounted, mounts, modelLoaded,
                  stateRef, localCounts, probe, ivl, srv >>

ThrowStalls(c) ==
  /\ c \in Awaiting(calls)
  /\ calls' = calls (-) One(c)
  /\ hist' = skipped(hist)
  /\ UNCHANGED << now, session, counts, queue, mounted, mounts, modelLoaded,
                  stateRef, localCounts, lastContextFlush, probe, ivl, srv >>

\* estimatePoses rejects: catch, then finally schedules the next callback
Throw(c) ==
  /\ c \in Awaiting(calls)
  /\ calls' = schedule(calls (-) One(c), c.counts, c.inst)
  /\ hist' = skipped(hist)
  /\ UNCHANGED << now, session, counts, queue, mounted, mounts, modelLoaded,
                  stateRef, localCounts, lastContextFlush, probe, ivl, srv >>

\* estimatePoses resolves to no skeleton, or to one with fewer than 17
\* keypoints: the callback schedules the next one and returns, and finally
\* schedules another
NoSkeleton(c) ==
  /\ c \in Awaiting(calls)
  /\ BagCardinality(calls) < MaxCalls
  /\ calls' = schedule(schedule(calls (-) One(c), c.counts, c.inst), c.counts, c.inst)
  /\ hist' = skipped(hist)
  /\ UNCHANGED << now, session, counts, queue, mounted, mounts, modelLoaded,
                  stateRef, localCounts, lastContextFlush, probe, ivl, srv >>

\* estimatePoses resolves to a skeleton of 17 keypoints: the seven detectors
\* run on it (r), the flush is attempted (fl) and finally schedules the next
\* callback
Flushed(c, f, r, fl, up) ==
  /\ Total(r.local) <= MaxEvents
  /\ stateRef' = r.s
  /\ localCounts' = r.local
  /\ lastContextFlush' = fl.lastContextFlush
  /\ queue' = queue \o fl.updates
  /\ hist' =
       [ emitted   |-> [ k \in Exercises |->
                           IF k \in r.emits THEN hist.emitted[k] + 1
                           ELSE hist.emitted[k] ],
         lastEmit  |-> [ k \in Exercises |->
                           IF k \in r.emits /\ Interval(k) > 0 THEN now
                           ELSE hist.lastEmit[k] ],
         valid     |-> hist.valid \/ HasValidKeypoint(f),
         cycle     |-> IF Cardinality(session) = 1
                       THEN nextCycle(hist.cycle, f, stateRef, localCounts,
                                      hist.lastEmit, now)
                       ELSE NoCycle,
         handUp    |-> IF HandSeen(f) THEN up ELSE hist.handUp,
         edges     |-> IF up /\ ~hist.handUp THEN hist.edges + 1 ELSE hist.edges,
         lastWrite |-> IF fl.updates # << >> THEN now ELSE hist.lastWrite,
         lastAccept |-> IF fl.accepted THEN now ELSE hist.lastAccept,
         flush     |-> IF fl.accepted THEN "accepted" ELSE "gated",
         skipped   |-> hist.skipped,
         opposite  |-> (hist.opposite \ r.emits) \cup Opposites(f) ]
  /\ calls' = schedule(calls (-) One(c), c.counts, c.inst)
  /\ UNCHANGED << now, session, counts, mounted, mounts, modelLoaded, probe, ivl, srv >>

Detected(c, f, r) ==
  Flushed(c, f, r, flushCountsToContext(now, lastContextFlush, r.local, c.counts),
          HandSeen(f) /\ HandAbove(f))

Process(c, f) ==
  /\ c \in Awaiting(calls)
  /\ Detected(c, f, detectAll(stateRef, localCounts, f.keypoints, f.videoWidth,
                              f.videoHeight, now))

\* React applies the queued updaters to the provider's state and renders the
\* provider and its consumers: a mounted WebCam gets new callbacks on the new
\* counts, and its start/stop effect runs again (cleanup, then start)
Render ==
  /\ queue # << >>
  /\ counts' = applyUpdates(counts, queue)
  /\ queue' = << >>
  /\ calls' = IF mounted /\ modelLoaded
              THEN schedule(cancelRaf(calls), counts', "cur")
              ELSE calls
  /\ UNCHANGED << now, session, mounted, mounts, modelLoaded, stateRef,
                  localCounts, lastContextFlush, hist, probe, ivl, srv >>

\* The route is left: the cleanups of the effects run (the callback rafRef
\* names is cancelled, the detector is disposed of).  The provider stays.
Unmount ==
  /\ mounted
  /\ queue = << >>
  /\ mounted' = FALSE
  /\ modelLoaded' = FALSE
  /\ calls' = retire(IF modelLoaded THEN cancelRaf(calls) ELSE calls)
  /\ UNCHANGED << now, session, counts, queue, mounts, stateRef,
                  localCounts, lastContextFlush, hist, probe, ivl, srv >>

----------------------------------------------------------------------------
(* The interval-driven component (pages/WebCam.jsx): every 300 ms detectPose *)
(* estimates a pose and calls updateCount for each event, with no buffer.    *)

IntervalPeriod == 300

\* The interval fires at most MaxIntervalTicks times
MaxIntervalTicks == 4

\* !kp || !kp.x || !kp.y || isNaN(kp.x) || isNaN(kp.y) || kp.score < 0.2
\* (a missing score is not below 0.2)
getKeypointRejected(kp) ==
  \/ ~kp.present
  \/ kp.x = 0 \/ kp.y = 0
  \/ isNaN(kp.x) \/ isNaN(kp.y)
  \/ (kp.hasScore /\ kp.score < ScoreMin)

getKeypoint(keypoints, name) ==
  LET idx == KEYPOINT_INDEX[name]
      kp  == IF idx + 1 \in DOMAIN keypoints THEN keypoints[idx + 1] ELSE NoKeypoint
  IN  IF getKeypointRejected(kp) THEN NoKeypoint
      ELSE [ kp EXCEPT !.x = Times(kp.x, 640), !.y = Times(kp.y, 480) ]

getKeypoints(keypoints) ==
  [ leftWrist     |-> getKeypoint(keypoints, "left_wrist"),
    leftShoulder  |-> getKeypoint(keypoints, "left_shoulder"),
    leftEye       |-> getKeypoint(keypoints, "left_eye"),
    rightEye      |-> getKeypoint(keypoints, "right_eye"),
    nose          |-> getKeypoint(keypoints, "nose"),
    rightShoulder |-> getKeypoint(keypoints, "right_shoulder"),
    leftAnkle     |-> getKeypoint(keypoints, "left_ankle"),
    rightAnkle    |-> getKeypoint(keypoints, "right_ankle"),
    leftKnee      |-> getKeypoint(keypoints, "left_knee"),
    leftHip       |-> getKeypoint(keypoints, "left_hip"),
    rightWrist    |-> getKeypoint(keypoints, "right_wrist"),
    rightKnee     |-> getKeypoint(keypoints, "right_knee"),
    rightHip      |-> getKeypoint(keypoints, "right_hip") ]

\* The detectors of detectPose whose thresholds differ from those of
\* Workouts.jsx; its hand-lift, squat and lunge blocks are handLift, squat and
\* lunge
ivlBlink(s, leftEye, rightEye, nose, currentTime) ==
  IF leftEye.present /\ rightEye.present /\ nose.present
  THEN LET leftEyeToNose  == hypot(leftEye.x - nose.x, leftEye.y - nose.y)
           rightEyeToNose == hypot(rightEye.x - nose.x, rightEye.y - nose.y)
           \* earAvg < 100 is earSum < 200, earAvg > 110 is earSum > 220
           earSum == leftEyeToNose + rightEyeToNose
       IN  IF earSum < Px(200) /\ ~s.blinkDetected
              /\ currentTime - s.lastTimes.blink > 50
           THEN Emit([ s EXCEPT !.blinkDetected = TRUE, !.lastTimes.blink = currentTime ])
           ELSE IF earSum > Px(220)
           THEN Quiet([ s EXCEPT !.blinkDetected = FALSE ])
           ELSE Quiet(s)
  ELSE Quiet(s)

ivlPushUp(s, rightShoulder, currentTime) ==
  IF rightShoulder.present
  THEN LET shoulderY == rightShoulder.y
       IN  IF shoulderY > Px(220) /\ s.pushUpState = "up"
              /\ currentTime - s.lastTimes.pushUp > 300
           THEN Quiet([ s EXCEPT !.pushUpState = "down" ])
           ELSE IF shoulderY < Px(120) /\ s.pushUpState = "down"
           THEN Emit([ s EXCEPT !.pushUpState = "up", !.lastTimes.pushUp = currentTime ])
           ELSE Quiet(s)
  ELSE Quiet(s)

ivlHighJump(s, leftAnkle, rightAnkle, currentTime) ==
  IF leftAnkle.present /\ rightAnkle.present
  THEN \* ankleAvgY < 120 is ankleSumY < 240
       LET ankleSumY == leftAnkle.y + rightAnkle.y
       IN  IF ankleSumY < Px(240) /\ s.highJumpState = "down"
              /\ currentTime - s.lastTimes.highJump > 500
           THEN Emit([ s EXCEPT !.highJumpState = "up", !.lastTimes.highJump = currentTime ])
           ELSE IF ankleSumY > Px(640)
           THEN Quiet([ s EXCEPT !.highJumpState = "down" ])
           ELSE Quiet(s)
  ELSE Quiet(s)

ivlJumpingJack(s, leftWrist, rightWrist, leftAnkle, rightAnkle, currentTime) ==
  IF leftWrist.present /\ rightWrist.present /\ leftAnkle.present /\ rightAnkle.present
  THEN LET armSpread == Abs(leftWrist.x - rightWrist.x)
           legSpread == Abs(leftAnkle.x - rightAnkle.x)
       IN  IF armSpread > Px(220) /\ legSpread > Px(120)
              /\ s.jumpingJackState = "closed"
              /\ currentTime - s.lastTimes.jumpingJack > 300
           THEN Emit([ s EXCEPT !.jumpingJackState = "open",
                                !.lastTimes.jumpingJack = currentTime ])
           ELSE IF armSpread < Px(80) /\ legSpread < Px(40)
           THEN Quiet([ s EXCEPT !.jumpingJackState = "closed" ])
           ELSE Quiet(s)
  ELSE Quiet(s)

\* detectPose after some of its detectors: the refs (s), the counts of its
\* closure and the updateCount calls made.  An event of key calls
\* updateCount(key, counts[key] + 1).
ivlAfter(a, r, key) ==
  IF r.emit
  THEN [ s |-> r.s, counts |-> a.counts,
         updates |-> Append(a.updates, << key, a.counts[key] + 1 >>) ]
  ELSE [ s |-> r.s, counts |-> a.counts, updates |-> a.updates ]

ivlAfterHandLift(a, k) ==
  ivlAfter(a, handLift(a.s, k.leftWrist, k.leftShoulder), "handLifts")

ivlAfterBlink(a, k, t) ==
  ivlAfter(a, ivlBlink(a.s, k.leftEye, k.rightEye, k.nose, t), "eyeBlinks")

ivlAfterPushUp(a, k, t) ==
  ivlAfter(a, ivlPushUp(a.s, k.rightShoulder, t), "pushUps")

ivlAfterHighJump(a, k, t) ==
  ivlAfter(a, ivlHighJump(a.s, k.leftAnkle, k.rightAnkle, t), "highJumps")

ivlAfterSquat(a, k, t) ==
  ivlAfter(a, squat(a.s, k.leftKnee, k.leftHip, t), "squats")

ivlAfterJumpingJack(a, k, t) ==
  ivlAfter(a, ivlJumpingJack(a.s, k.leftWrist, k.rightWrist, k.leftAnkle,
                             k.rightAnkle, t), "jumpingJacks")

ivlAfterLunge(a, k, t) ==
  ivlAfter(a, lunge(a.s, k.rightKnee, k.rightHip, t), "lunges")

\* The body of detectPose from the first getKeypoint to the last detector
detectPose(s0, closureCounts, keypoints, currentTime) ==
  LET k  == getKeypoints(keypoints)
      a0 == [ s |-> s0, counts |-> closureCounts, updates |-> << >> ]
  IN  ivlAfterLunge(
        ivlAfterJumpingJack(
          ivlAfterSquat(
            ivlAfterHighJump(
              ivlAfterPushUp(
                ivlAfterBlink(
                  ivlAfterHandLift(a0, k),
                  k, currentTime),
                k, currentTime),
              k, currentTime),
            k, currentTime),
          k, currentTime),
        k, currentTime)

\* createDetector resolves: setDetector(model), the component renders and the
\* effect on [detector] starts the interval on the detectPose of that render,
\* whose closure holds the counts the store has then
IvlLoaded ==
  /\ ~ivl.detector
  /\ queue = << >>
  /\ ivl' = [ ivl EXCEPT !.detector = TRUE, !.counts = counts ]
  /\ UNCHANGED << now, session, counts, queue, mounted, mounts, modelLoaded,
                  stateRef, localCounts, lastContextFlush, calls, hist, probe, srv >>

\* 300 ms pass and the interval calls detectPose, which calls estimatePoses
\* if the video is ready
IvlTick(ready) ==
  /\ ivl.detector
  /\ queue = << >>
  /\ now + IntervalPeriod <= Epoch + IntervalPeriod * MaxIntervalTicks
  /\ now' = now + IntervalPeriod
  /\ ivl' = [ ivl EXCEPT !.inflight = IF ready THEN @ + 1 ELSE @ ]
  /\ UNCHANGED << session, counts, queue, mounted, mounts, modelLoaded,
                  stateRef, localCounts, lastContextFlush, calls, hist, probe, srv >>

\* An estimatePoses call resolves to no pose, or rejects: detectPose returns
IvlNoPose ==
  /\ ivl.inflight > 0
  /\ ivl' = [ ivl EXCEPT !.inflight = @ - 1 ]
  /\ UNCHANGED << now, session, counts, queue, mounted, mounts, modelLoaded,
                  stateRef, localCounts, lastContextFlush, calls, hist, probe, srv >>

IvlDetected(r) ==
  /\ ivl' = [ ivl EXCEPT !.inflight = @ - 1, !.s = r.s,
                         !.events = [ k \in Exercises |->
                                        @[k] + Cardinality({ i \in DOMAIN r.updates :
                                                               r.updates[i][1] = k }) ] ]
  /\ queue' = queue \o r.updates

\* An estimatePoses call resolves to a pose: the detectors run on it
IvlResolve(f) ==
  /\ ivl.inflight > 0
  /\ IvlDetected(detectPose(ivl.s, ivl.counts, f.keypoints, now))
  /\ UNCHANGED << now, session, counts, mounted, mounts, modelLoaded,
                  stateRef, localCounts, lastContextFlush, calls, hist, probe, srv >>

----------------------------------------------------------------------------
(* The server's request handler: each invocation awaits connectDB and then   *)
(* passes the request to the application.  pc[r] is where the invocation for *)
(* request r is: "none" (not invoked), "connecting" (suspended at            *)
(* await mongoose.connect), "dispatch" (connectDB has returned) or "done".   *)

Others == << now, session, counts, queue, mounted, mounts, modelLoaded,
             stateRef, localCounts, lastContextFlush, calls, hist, probe, ivl >>

\* handler(req, res) is called: connectDB returns at once if isConnected,
\* else calls mongoose.connect and is suspended
Invoke(r) ==
  /\ srv.pc[r] = "none"
  /\ srv' = IF srv.isConnected
            THEN [ srv EXCEPT !.pc[r] = "dispatch" ]
            ELSE [ srv EXCEPT !.pc[r] = "connecting", !.connects = @ + 1 ]
  /\ UNCHANGED Others

\* mongoose.connect resolves: isConnected = true
ConnectOk(r) ==
  /\ srv.pc[r] = "connecting"
  /\ srv' = [ srv EXCEPT !.pc[r] = "dispatch", !.isConnected = TRUE ]
  /\ UNCHANGED Others

\* mongoose.connect rejects: the catch block logs the error
ConnectFail(r) ==
  /\ srv.pc[r] = "connecting"
  /\ srv' = [ srv EXCEPT !.pc[r] = "dispatch" ]
  /\ UNCHANGED Others

\* return app(req, res)
Dispatch(r) ==
  /\ srv.pc[r] = "dispatch"
  /\ srv' = [ srv EXCEPT !.pc[r] = "done" ]
  /\ UNCHANGED Others

----------------------------------------------------------------------------
(* Single functions of the code on chosen inputs.  The variable probe holds *)
(* an input (kind "...In") and then the input with the function's result.    *)

\* Coordinates of a keypoint slot as the estimator may deliver them
ProbeCoordinates == { 0, Den \div 2, Den, NaN, Infinity, NegInfinity }

ProbeScores == { 0, ScoreMin - 1, ScoreMin, ScoreMin + 1, GoodScore }

ProbeSizes == { << DefaultWidth, DefaultHeight >>, << 2 * DefaultWidth, 720 >> }

ProbeSlots ==
  { NoKeypoint }
    \cup { [ present |-> TRUE, x |-> x, y |-> y, score |-> sc, hasScore |-> TRUE ] :
             x \in ProbeCoordinates, y \in ProbeCoordinates, sc \in ProbeScores }
    \cup { [ present |-> TRUE, x |-> x, y |-> y, score |-> 0, hasScore |-> FALSE ] :
             x \in ProbeCoordinates, y \in ProbeCoordinates }

\* The filter is asked for the last keypoint, "right_ankle", of an array of
\* len slots: with len one short of the 17 names the slot does not exist
FilterInputs ==
  { [ kind |-> "filterIn", kp |-> kp, size |-> sz, len |-> n ] :
      kp \in ProbeSlots, sz \in ProbeSizes,
      n \in { Len(KEYPOINT_NAMES) - 1, Len(KEYPOINT_NAMES) } }

ProbeFilter ==
  /\ probe.kind = "filterIn"
  /\ LET keypoints == [ i \in 1..probe.len |->
                          IF i = Len(KEYPOINT_NAMES) THEN probe.kp ELSE NoKeypoint ]
     IN  probe' = [ kind |-> "filter", in |-> probe,
                    out |-> getKeypointByName(keypoints, "right_ankle",
                                              probe.size[1], probe.size[2]) ]
  /\ UNCHANGED << now, session, counts, queue, mounted, mounts, modelLoaded,
                  stateRef, localCounts, lastContextFlush, calls, hist, ivl, srv >>

\* stateRef with every detector in its rest state (active FALSE) or in its
\* other state (active TRUE), its last event at time last
StateAt(active, last) ==
  [ handLifted       |-> active,
    blinkDetected    |-> active,
    pushUpState      |-> IF active THEN "down" ELSE "up",
    highJumpState    |-> IF active THEN "up" ELSE "down",
    squatState       |-> IF active THEN "down" ELSE "up",
    jumpingJackState |-> IF active THEN "open" ELSE "closed",
    lungeState       |-> IF active THEN "down" ELSE "up",
    lastTimes        |-> [ d \in Debounced |-> last ] ]

\* A detector at rest, its last event elapsed ms ago, is shown the pose of its
\* debounce-guarded transition
DebounceInputs ==
  { [ kind |-> "debounceIn", e |-> e, last |-> last, elapsed |-> Interval(e) + d ] :
      e \in { x \in Exercises : Interval(x) > 0 },
      last \in { Epoch, Epoch + FineStep }, d \in { -1, 0, 1 } }

ProbeDebounce ==
  /\ probe.kind = "debounceIn"
  /\ LET f == FrameTable[<< "pose", { << probe.e, "A" >> } >>]
         s == StateAt(FALSE, probe.last)
         r == detectAll(s, defaultLocalCounts, f.keypoints, f.videoWidth,
                        f.videoHeight, probe.last + probe.elapsed)
     IN  probe' = [ kind |-> "debounce", in |-> probe,
                    before |-> Detector(s, probe.e), after |-> Detector(r.s, probe.e),
                    emits |-> r.emits ]
  /\ UNCHANGED << now, session, counts, queue, mounted, mounts, modelLoaded,
                  stateRef, localCounts, lastContextFlush, calls, hist, ivl, srv >>

\* The keypoints each exercise's detector reads
Triggers(e) ==
  CASE e = "handLifts"    -> { "left_wrist", "left_shoulder" }
    [] e = "eyeBlinks"    -> { "left_eye", "right_eye", "nose" }
    [] e = "pushUps"      -> { "right_shoulder" }
    [] e = "highJumps"    -> { "left_ankle", "right_ankle" }
    [] e = "squats"       -> { "left_knee", "left_hip" }
    [] e = "jumpingJacks" -> { "left_wrist", "right_wrist", "left_ankle", "right_ankle" }
    [] OTHER              -> { "right_knee", "right_hip" }

\* stateRef s with the fields of e's detector taken from stateRef own
WithDetector(s, e, own) ==
  CASE e = "handLifts"    -> [ s EXCEPT !.handLifted = own.handLifted ]
    [] e = "eyeBlinks"    -> [ s EXCEPT !.blinkDetected = own.blinkDetected,
                                        !.lastTimes.blink = own.lastTimes.blink ]
    [] e = "pushUps"      -> [ s EXCEPT !.pushUpState = own.pushUpState,
                                        !.lastTimes.pushUp = own.lastTimes.pushUp ]
    [] e = "highJumps"    -> [ s EXCEPT !.highJumpState = own.highJumpState,
                                        !.lastTimes.highJump = own.lastTimes.highJump ]
    [] e = "squats"       -> [ s EXCEPT !.squatState = own.squatState,
                                        !.lastTimes.squat = own.lastTimes.squat ]
    [] e = "jumpingJacks" -> [ s EXCEPT !.jumpingJackState = own.jumpingJackState,
                                        !.lastTimes.jumpingJack = own.lastTimes.jumpingJack ]
    [] OTHER              -> [ s EXCEPT !.lungeState = own.lungeState,
                                        !.lastTimes.lunge = own.lastTimes.lunge ]

\* The keypoints of the other detectors in the second run: every other
\* exercise in its active pose, the same with scores below 0.2, or empty slots
OtherKeypoints(e, alt) ==
  LET others == { << x, "A" >> : x \in Exercises \ { e } }
  IN  CASE alt = "active" -> Keypoints(others, GoodScore)
        [] alt = "low"    -> Keypoints(others, LowScore)
        [] OTHER          -> [ i \in 1..Len(KEYPOINT_NAMES) |-> NoKeypoint ]

\* One frame in which e is in phase p, processed twice: once with every
\* detector in the state of e's detector, once with the other detectors'
\* states and the keypoints only they read replaced
IndependenceInputs ==
  { [ kind |-> "independenceIn", e |-> e, p |-> p, active |-> a, elapsed |-> el,
      otherActive |-> oa, alt |-> alt ] :
      e \in Exercises, p \in Phases, a \in BOOLEAN, el \in { FineStep, FlushInterval },
      oa \in BOOLEAN, alt \in { "active", "low", "empty" } }

ProbeIndependence ==
  /\ probe.kind = "independenceIn"
  /\ LET f   == FrameTable[<< "pose", { << probe.e, probe.p >> } >>]
         t   == Epoch + probe.elapsed
         s1  == StateAt(probe.active, Epoch)
         s2  == WithDetector(StateAt(probe.otherActive, t), probe.e, s1)
         alt == OtherKeypoints(probe.e, probe.alt)
         k2  == [ i \in 1..Len(KEYPOINT_NAMES) |->
                    IF KEYPOINT_NAMES[i] \in Triggers(probe.e)
                    THEN f.keypoints[i] ELSE alt[i] ]
         r1  == detectAll(s1, defaultLocalCounts, f.keypoints, f.videoWidth,
                          f.videoHeight, t)
         r2  == detectAll(s2, defaultLocalCounts, k2, f.videoWidth, f.videoHeight, t)
     IN  probe' = [ kind |-> "independence", in |-> probe,
                    own1 |-> Detector(r1.s, probe.e), emits1 |-> r1.emits,
                    own2 |-> Detector(r2.s, probe.e), emits2 |-> r2.emits ]
  /\ UNCHANGED << now, session, counts, queue, mounted, mounts, modelLoaded,
                  stateRef, localCounts, lastContextFlush, calls, hist, ivl, srv >>

\* The poses a detector's band is looked for in: the three phases of its
\* gesture and, for the hand lift, the neutral pose with the left wrist at
\* every height of the frame (level n is kp.y = n / Den)
BandPoses(e) ==
  { << "phase", p >> : p \in Phases }
    \cup (IF e = "handLifts" THEN { << "level", n >> : n \in 0..Den } ELSE {})

BandKeypoints(e, id) ==
  IF id[1] = "phase" THEN FrameTable[<< "pose", { << e, id[2] >> } >>].keypoints
  ELSE [ i \in 1..Len(KEYPOINT_NAMES) |->
           IF KEYPOINT_NAMES[i] = "left_wrist"
           THEN [ Keypoints({}, GoodScore)[i] EXCEPT !.y = id[2] ]
           ELSE Keypoints({}, GoodScore)[i] ]

BandInputs ==
  { [ kind |-> "bandIn", e |-> e, elapsed |-> el ] :
      e \in Exercises, el \in { FineStep, FlushInterval } }

\* The detector of e leaves its state alone and emits nothing on keypoints k,
\* whether it is at rest or not
QuietOn(e, k, t) ==
  \A a \in BOOLEAN :
    LET s == StateAt(a, Epoch)
        r == detectAll(s, defaultLocalCounts, k, DefaultWidth, DefaultHeight, t)
    IN  Detector(r.s, e)[1] = Detector(s, e)[1] /\ e \notin r.emits

\* The poses of BandPoses on which the detector of e makes no transition from
\* either of its states
ProbeBand ==
  /\ probe.kind = "bandIn"
  /\ probe' = [ kind |-> "band", in |-> probe,
                quiet |-> { id \in BandPoses(probe.e) :
                              QuietOn(probe.e, BandKeypoints(probe.e, id),
                                      Epoch + probe.elapsed) } ]
  /\ UNCHANGED << now, session, counts, queue, mounted, mounts, modelLoaded,
                  stateRef, localCounts, lastContextFlush, calls, hist, ivl, srv >>

----------------------------------------------------------------------------
(* Specifications *)

\* The sessions watched over the life of the component
LifecycleSessions == { { "handLifts" } }

\* The component just mounted with its model loaded, watched at a fine time
\* scale for less than one flush interval
InitDetect ==
  /\ now = Epoch
  /\ session \in Sessions
  /\ counts = defaultLocalCounts
  /\ queue = << >>
  /\ mounted = TRUE
  /\ mounts = 1
  /\ modelLoaded = TRUE
  /\ stateRef = initialStateRef
  /\ localCounts = defaultLocalCounts
  /\ lastContextFlush = Epoch
  /\ calls = One(Call("scheduled", defaultLocalCounts, TRUE, "cur"))
  /\ hist = initialHist
  /\ probe = NoProbe
  /\ ivl = initialInterval
  /\ srv = initialServer

NextDetect ==
  \/ Tick(FineStep, MaxFineTicks)
  \/ \E c \in BagToSet(calls) : NotReady(c)
  \/ \E c \in BagToSet(calls) : Begin(c)
  \/ \E c \in BagToSet(calls) : Throw(c)
  \/ \E c \in BagToSet(calls) : NoSkeleton(c)
  \/ \E c \in BagToSet(calls) : \E id \in SessionFrames(session) : Process(c, FrameTable[id])

SpecDetect == InitDetect /\ [][NextDetect]_vars

\* The component mounted, unmounted and mounted again, at a coarse time scale
Init == InitWith(LifecycleSessions)

Next ==
  \/ Tick(CoarseStep, MaxCoarseTicks)
  \/ Mount
  \/ ModelLoaded
  \/ \E c \in BagToSet(calls) : NotReady(c)
  \/ \E c \in BagToSet(calls) : Begin(c)
  \/ \E c \in BagToSet(calls) : Throw(c)
  \/ \E c \in BagToSet(calls) : \E id \in SessionFrames(session) : Process(c, FrameTable[id])
  \/ Render
  \/ Unmount

Spec == Init /\ [][Next]_vars

\* The component mounted with its model loaded and never unmounted, at the
\* coarse time scale
InitLoop ==
  /\ now = Epoch
  /\ session \in LifecycleSessions
  /\ counts = defaultLocalCounts
  /\ queue = << >>
  /\ mounted = TRUE
  /\ mounts = 1
  /\ modelLoaded = TRUE
  /\ stateRef = initialStateRef
  /\ localCounts = defaultLocalCounts
  /\ lastContextFlush = Epoch
  /\ calls = One(Call("scheduled", defaultLocalCounts, TRUE, "cur"))
  /\ hist = initialHist
  /\ probe = NoProbe
  /\ ivl = initialInterval
  /\ srv = initialServer

NextLoop ==
  \/ Tick(CoarseStep, MaxLoopTicks)
  \/ \E c \in BagToSet(calls) : NotReady(c)
  \/ \E c \in BagToSet(calls) : Begin(c)
  \/ \E c \in BagToSet(calls) : Throw(c)
  \/ \E c \in BagToSet(calls) : NoSkeleton(c)
  \/ \E c \in BagToSet(calls) : \E id \in SessionFrames(session) : Process(c, FrameTable[id])
  \/ Render

\* A callback's estimatePoses resolves to a full skeleton and the frame is
\* processed
Processed ==
  \E c \in BagToSet(calls) : \E id \in SessionFrames(session) : Process(c, FrameTable[id])

\* Time passes, the browser runs the callbacks it was asked to run,
\* estimatePoses keeps resolving to full skeletons and React applies the
\* updates it was given.  The third conjunct is strong fairness of
\* Processed, which is enabled exactly when a callback is awaiting
\* estimatePoses (the neutral frame can always be processed).
Fairness ==
  /\ WF_vars(Tick(CoarseStep, MaxLoopTicks))
  /\ WF_vars(\E c \in BagToSet(calls) : Begin(c))
  /\ (<>[](Awaiting(calls) = {}) \/ []<><<Processed>>_vars)
  /\ WF_vars(Render)

SpecLoop == InitLoop /\ [][NextLoop]_vars /\ Fairness

\* The interval-driven component mounted inside the provider
InitInterval == InitWith(LifecycleSessions)

NextInterval ==
  \/ IvlLoaded
  \/ \E ready \in BOOLEAN : IvlTick(ready)
  \/ IvlNoPose
  \/ \E id \in SessionFrames(session) : IvlResolve(FrameTable[id])
  \/ Render

SpecInterval == InitInterval /\ [][NextInterval]_vars

\* The server process from its start
InitServer == InitWith(LifecycleSessions)

NextServer ==
  \E r \in 1..MaxRequests :
    \/ Invoke(r)
    \/ ConnectOk(r)
    \/ ConnectFail(r)
    \/ Dispatch(r)

SpecServer == InitServer /\ [][NextServer]_vars

\* Single functions of the code, each applied to one input drawn at the start
InitProbe ==
  /\ now = Epoch
  /\ session \in LifecycleSessions
  /\ counts = defaultLocalCounts
  /\ queue = << >>
  /\ mounted = TRUE
  /\ mounts = 1
  /\ modelLoaded = TRUE
  /\ stateRef = initialStateRef
  /\ localCounts = defaultLocalCounts
  /\ lastContextFlush = Epoch
  /\ calls = One(Call("scheduled", defaultLocalCounts, TRUE, "cur"))
  /\ hist = initialHist
  /\ probe \in FilterInputs \cup DebounceInputs \cup IndependenceInputs \cup BandInputs
  /\ ivl = initialInterval
  /\ srv = initialServer

NextProbe ==
  \/ ProbeFilter
  \/ ProbeDebounce
  \/ ProbeIndependence
  \/ ProbeBand

SpecProbe == InitProbe /\ [][NextProbe]_vars

----------------------------------------------------------------------------
(* Properties of the detectors and the local buffer (SpecDetect) *)

\* The step is the processing of a frame on which exercise e's detector
\* emitted an event
Emitted(e) == hist'.emitted[e] > hist.emitted[e]

\* C1: for each of the six debounced detectors, two consecutive events of the
\* detector are at least its debounce interval apart, whatever the frames in
\* between.
C1_DebounceSeparation ==
  [][ \A e \in Exercises :
        (Interval(e) > 0 /\ Emitted(e) /\ hist.lastEmit[e] # 0)
          => now - hist.lastEmit[e] >= Interval(e) ]_vars

\* A debounced detector has emitted two events
C1_Witness ==
  \E e \in Exercises : Interval(e) > 0 /\ hist.emitted[e] >= 2

\* C2: from all detectors at rest, the active pose of one exercise followed by
\* its return pose, begun more than the debounce interval after the
\* exercise's last event, adds exactly 1 to that exercise's local count and
\* leaves the counts and the detector states of the other six as they were.
C2_SingleCycle ==
  hist.cycle.stage = "done" =>
    /\ localCounts = [ hist.cycle.local EXCEPT ![hist.cycle.ex] = @ + 1 ]
    /\ AtRest(stateRef, hist.cycle.ex)
    /\ \A e \in Exercises \ { hist.cycle.ex } :
         Detector(stateRef, e) = Detector(hist.cycle.s, e)

\* A second cycle of a debounced exercise is complete
C2_Witness ==
  /\ hist.cycle.stage = "done"
  /\ Interval(hist.cycle.ex) > 0
  /\ hist.cycle.local[hist.cycle.ex] = 1

\* C4: the hand-lift count is the number of rest-to-active edges of the hand
\* over the frames on which left wrist and left shoulder are valid, and the
\* detector is active exactly when the last such frame had
\* wrist.y < shoulder.y + 10: holding the pose adds nothing, and the detector
\* returns to rest on a valid frame with wrist.y >= shoulder.y + 10.
C4_HandLiftEdges ==
  /\ localCounts.handLifts = hist.edges
  /\ stateRef.handLifted = hist.handUp

\* Two edges were counted and the hand is held up
C4_Witness ==
  hist.edges = 2 /\ hist.handUp /\ localCounts.handLifts = 2

\* C5: for each exercise the local buffer holds the number of events its
\* detector emitted since the buffer was initialised, whether or not a flush
\* was due.
C5_BufferCountsEvents ==
  \A e \in Exercises : localCounts[e] = hist.emitted[e]

\* Two events are in the buffer and the flush of the last frame was not due
C5_Witness ==
  /\ Total(hist.emitted) = 2
  /\ hist.flush = "gated"
  /\ counts = defaultLocalCounts

----------------------------------------------------------------------------
(* Properties of the flush and the published store (Spec) *)

\* C3: as long as no frame had a valid keypoint, no detector has left its
\* initial state and every local and published count is at its initial value.
C3_NoValidKeypoints ==
  ~hist.valid =>
    /\ stateRef = initialStateRef
    /\ localCounts = defaultLocalCounts
    /\ counts = defaultLocalCounts
    /\ queue = << >>

\* Only frames without a valid keypoint were processed, the last of them with
\* the flush due
C3_Witness ==
  ~hist.valid /\ hist.flush = "accepted" /\ now - Epoch >= FlushInterval

\* The step is a flush that writes to the published store
Writes == Len(queue') > Len(queue)

C7_FlushPropagatesAll ==
  (hist.flush = "accepted" /\ queue = << >>) => counts = localCounts

\* C8: the published value of an exercise is never greater than the value in
\* the local buffer of the component, also after the component was unmounted
\* and mounted again.
C8_PublishedNotAhead ==
  mounted => \A e \in Exercises : counts[e] <= localCounts[e]

\* C9: no published count ever decreases.
C9_NoRegress ==
  [][ \A e \in Exercises : counts'[e] >= counts[e] ]_vars

\* C10: when the component is unmounted, the store with the updates queued by
\* then equals the local buffer.
C10_TeardownFlushes ==
  [][ (mounted /\ ~mounted') => applyUpdates(counts', queue') = localCounts' ]_vars

----------------------------------------------------------------------------
(* Properties of the animation-frame loop *)

\* The calls of estimatePoses that have not completed
InFlight(B) == BagCardinality([ c \in Awaiting(B) |-> CopiesIn(c, B) ])

\* C11: at most one call of estimatePoses is in flight at any time.
C11_SingleInFlight ==
  InFlight(calls) <= 1

\* C12: once the component is unmounted, no callback of detectAndProcess is
\* scheduled, no count is recorded in the buffer and nothing is written to or
\* applied in the published store.
C12_TeardownStops ==
  [][ (~mounted /\ ~mounted' /\ mounts > 0) =>
        /\ Scheduled(calls') \subseteq Scheduled(calls)
        /\ stateRef' = stateRef
        /\ localCounts' = localCounts
        /\ queue' = queue
        /\ counts' = counts ]_vars

\* C13: a callback that finds the model or the video not ready, one whose
\* estimation gives no skeleton of 17 keypoints and one whose estimation
\* throws leave the detector state, the local buffer, the published store and
\* the time of the last flush as they were.
C13_SkipsChangeNothing ==
  [][ (\E c \in BagToSet(calls) : NotReady(c) \/ NoSkeleton(c) \/ Throw(c)) =>
        UNCHANGED << stateRef, localCounts, counts, queue, lastContextFlush >> ]_vars

\* Such a step was taken with counts in the buffer and a detector away from
\* its initial state, later than the last flush attempt
C13_Witness ==
  /\ hist.skipped
  /\ localCounts # defaultLocalCounts
  /\ stateRef # initialStateRef
  /\ now > lastContextFlush

\* C14: the operation that resets the counts sets the local buffer and the
\* published store to 0 and returns every detector to rest in one step.  (The
\* only step of the program that zeroes the buffer is the creation of the
\* component's refs on mount.)
C14_ResetZeroesAll ==
  [][ (localCounts # defaultLocalCounts /\ localCounts' = defaultLocalCounts) =>
        /\ stateRef' = initialStateRef
        /\ counts' = defaultLocalCounts
        /\ queue' = << >> ]_vars

\* C15: every updateCount(k, v) called by a flush has v different from the
\* value the store holds for k (the updates already queued counted in).
C15_UpdateOnlyOnChange ==
  [][ Writes =>
        \A i \in (Len(queue) + 1)..Len(queue') :
          queue'[i][2] # applyUpdates(counts, queue)[queue'[i][1]] ]_vars

\* C19: the first flush after initialisation is exempt from the 800 ms
\* interval: the step that records the first event after initialisation
\* has its flush accepted and publishes the event.
C19_FirstFlushImmediate ==
  [][ (localCounts = defaultLocalCounts /\ localCounts' # defaultLocalCounts) =>
        /\ lastContextFlush' = now
        /\ Writes ]_vars

----------------------------------------------------------------------------
(* Properties of single functions (SpecProbe) *)

Finite(v) == v \notin { NaN, Infinity, NegInfinity }

\* The slot the filter was asked for exists and is filled
Filled(in) == in.len = Len(KEYPOINT_NAMES) /\ in.kp.present

\* C16: the filter returns absent exactly when the slot is empty or its
\* confidence is missing or below 0.2; a keypoint with confidence 0.2 or more
\* and finite coordinates is returned with x multiplied by the frame width, y
\* by the frame height and its other fields unchanged.
C16_FilterThreshold ==
  (probe.kind = "filter" /\ Finite(probe.in.kp.x) /\ Finite(probe.in.kp.y)) =>
    LET kp == probe.in.kp
    IN  IF Filled(probe.in) /\ ValidSlot(kp)
        THEN probe.out = [ kp EXCEPT !.x = kp.x * probe.in.size[1],
                                     !.y = kp.y * probe.in.size[2] ]
        ELSE probe.out = NoKeypoint

C16_Witness ==
  /\ probe.kind = "filter"
  /\ Filled(probe.in)
  /\ probe.in.kp.hasScore /\ probe.in.kp.score = ScoreMin
  /\ probe.in.kp.x = Den /\ probe.in.kp.y = Den \div 2
  /\ probe.out.present
  /\ probe.out.x = Den * probe.in.size[1]

\* C17: the filter returns absent for every keypoint whose x or y is not a
\* finite number (NaN, +Infinity, -Infinity) after rescaling.
C17_NonFiniteRejected ==
  (probe.kind = "filter" /\ Filled(probe.in)
     /\ (~Finite(probe.in.kp.x) \/ ~Finite(probe.in.kp.y))) =>
    probe.out = NoKeypoint

\* C18: a debounce-guarded transition whose geometric and state conditions
\* hold is suppressed exactly when less than the detector's interval has
\* elapsed since its last accepted event; at exactly the interval it is taken.
C18_TakenAtInterval ==
  probe.kind = "debounce" =>
    ((probe.after[1] # probe.before[1]) <=> (probe.in.elapsed >= Interval(probe.in.e)))

\* C20: the new state of a detector and whether it emits are the same in two
\* runs on the same frame size and time that agree on the detector's own
\* state and trigger keypoints, whatever the other detectors' states and the
\* keypoints only they read.
C20_DetectorsIndependent ==
  probe.kind = "independence" =>
    /\ probe.own1 = probe.own2
    /\ (probe.in.e \in probe.emits1) <=> (probe.in.e \in probe.emits2)

C20_Witness ==
  /\ probe.kind = "independence"
  /\ probe.in.e \in probe.emits1
  /\ probe.emits1 # probe.emits2
  /\ probe.in.otherActive # probe.in.active

\* C21 as claimed: every one of the seven detectors, hand lift included, has
\* a non-empty hysteresis band: some measurement on which it makes no
\* transition and emits nothing, whichever state it is in.
C21_EveryDetectorHasBand ==
  probe.kind = "band" => probe.quiet # {}

\* C21: each of the six debounced detectors has a non-empty hysteresis band:
\* on the pose between its two thresholds it makes no transition and emits
\* nothing from either state.  The hand-lift detector has a single threshold
\* (wrist.y against shoulder.y + 10): at every wrist height it makes a
\* transition from one of its two states.
C21_DebouncedHaveBand ==
  probe.kind = "band" =>
    IF Interval(probe.in.e) > 0
    THEN << "phase", "H" >> \in probe.quiet
    ELSE probe.quiet = {}

C21_Witness ==
  /\ probe.kind = "band"
  /\ probe.in.e = "eyeBlinks"
  /\ probe.in.elapsed = FlushInterval
  /\ probe.quiet = { << "phase", "H" >> }

----------------------------------------------------------------------------
(* Progress (SpecLoop) *)

\* The time at which the clock of SpecLoop stops
End == Epoch + CoarseStep * MaxLoopTicks

\* C22: no recorded event is lost, only delayed: in a component that stays
\* mounted, every event in the local buffer is eventually in the published
\* store, provided a flush attempt 800 ms after the previous flush is still
\* to come.
C22_NoEventLost ==
  \A k \in UNION LifecycleSessions : \A n \in 1..MaxEvents :
    (localCounts[k] >= n /\ lastContextFlush + FlushInterval <= End)
      ~> (counts[k] >= n)

C22_Witness ==
  /\ mounted
  /\ localCounts["handLifts"] >= 1
  /\ counts = localCounts
  /\ queue = << >>
  /\ lastContextFlush >= Epoch + FlushInterval

\* C23: the frame loop never stalls while the component is mounted: whatever
\* the outcomes of the steps so far, a callback of the mounted component is
\* scheduled again and again, and again and again one has run and is at its
\* estimatePoses call.
C23_LoopNeverStalls ==
  /\ []<>(\E c \in Scheduled(calls) : c.inst = "cur")
  /\ []<>(\E c \in Awaiting(calls) : c.inst = "cur")

C23_Witness ==
  /\ mounted
  /\ hist.skipped
  /\ now = End
  /\ \E c \in Awaiting(calls) : c.inst = "cur"

----------------------------------------------------------------------------
(* One loop (SpecDetect) *)

\* C25: a held pose is counted once: when a detector emits an event that is
\* not its first, its opposite condition was observed with valid keypoints on
\* a frame since its previous event.
C25_HeldPoseOnce ==
  [][ \A e \in Exercises :
        (Emitted(e) /\ hist.emitted[e] >= 1) => e \in hist.opposite ]_vars

\* The hand was lifted twice and has been held up since
C25_Witness ==
  /\ hist.emitted["handLifts"] = 2
  /\ "handLifts" \notin hist.opposite
  /\ hist.flush = "gated"


\* C24: every step of the loop schedules exactly one successor: at most one
\* callback of the component is scheduled or running, and a scheduled
\* callback is the one rafRef names.
C24_OneSuccessor ==
  /\ BagCardinality(calls) <= 1
  /\ \A c \in Scheduled(calls) : c.raf

----------------------------------------------------------------------------
(* The interval-driven component (SpecInterval) *)

\* C26: every detected event increases the published count of its exercise
\* by exactly one: each updateCount(k, v) of detectPose has v one more than
\* the value the store holds for k, the updates before it counted in.
C26_EventAddsOne ==
  [][ \A i \in (Len(queue) + 1)..Len(queue') :
        queue'[i][2] = applyUpdates(counts, SubSeq(queue', 1, i - 1))[queue'[i][1]] + 1
    ]_vars

\* C27: at most one estimatePoses call of the interval-driven component is
\* in flight.
C27_OneEstimation == ivl.inflight <= 1

\* The value of the last update of key k in the sequence q of updateCount calls
LastValue(q, k) ==
  q[CHOOSE i \in DOMAIN q :
      q[i][1] = k /\ \A j \in DOMAIN q : q[j][1] = k => j <= i][2]

\* C28: updateCount(key, value) sets only the named exercise's published
\* count: when the store applies the calls made since its last render, every
\* exercise named by a call has the value of its last call, whatever other
\* exercises were updated in the same step, and every other exercise keeps
\* its count.
C28_UpdateSetsOnlyKey ==
  [][ (queue # << >> /\ queue' = << >>) =>
        \A k \in Exercises :
          counts'[k] = IF \E i \in DOMAIN queue : queue[i][1] = k
                       THEN LastValue(queue, k)
                       ELSE counts[k] ]_vars

\* Two exercises updated in one step are both published
C28_Witness ==
  /\ queue = << >>
  /\ counts = [ defaultLocalCounts EXCEPT !["handLifts"] = 1, !["eyeBlinks"] = 1 ]
  /\ ivl.events = counts

----------------------------------------------------------------------------
(* The server's request handler (SpecServer) *)

Connecting == { r \in 1..MaxRequests : srv.pc[r] = "connecting" }

\* C29: the database connection is opened at most once per process:
\* mongoose.connect is never called while an earlier call is pending or after
\* one has succeeded; a failed connect leaves isConnected false and the
\* request is dispatched all the same.
C29_ConnectOnce ==
  [][ /\ srv'.connects > srv.connects => (Connecting = {} /\ ~srv.isConnected)
      /\ \A r \in Connecting :
            srv'.pc[r] # "connecting" =>
              /\ srv'.pc[r] = "dispatch"
              /\ srv'.isConnected \/ srv'.isConnected = srv.isConnected ]_vars

====
